---- MODULE Spec2Model ----
(***************************************************************************)
(* Gap-filling beat-aligned effect schedulers of the Vixen scripts.        *)
(*                                                                         *)
(* Time is counted in ticks of 0.1 s: every threshold of the scripts       *)
(* (0.1, 0.3, 0.5, 0.7, 1.0, 2.0, 4.0, 8.0, 10.0 and the 60 s minute) is a  *)
(* whole number of ticks.  The beat files are written with six decimals    *)
(* and the formatter keeps seven, so formatting never rounds a value the   *)
(* pass handles; what the formatter does do, splitting a time into minutes *)
(* and seconds, is modelled by seconds_to_duration / parse_duration.      *)
(***************************************************************************)
EXTENDS Integers, Sequences, FiniteSets, TLC

VARIABLES
    beats,              \* beats: list of beat times, in file order
    downbeats,          \* downbeats: set of beat times
    strong_beats,       \* strong_beats: set of beat times (waveform script)
    existing0,          \* intervals parsed from the document when the run starts
    existing_effects,   \* existing_effects: the occupied list, sorted
    i,                  \* loop cursor of add_beatnet_effects.py (0-based)
    pc,                 \* position of the running script
    new_effect_data,    \* new_effect_data: list of effect-data blocks
    new_effect_nodes,   \* new_effect_nodes: list of effect-node blocks
    effects_added,      \* effects_added counter
    color_idx,          \* color_idx rotation index
    iters,              \* number of loop iterations executed in this run
    run,                \* 1 for the first run of the script, 2 for a second run
    rerun,              \* how the second run was started: "none", "same", "merged"
    prev_out,           \* output of the first run, kept for comparison
    beat_idx,           \* loop cursor of add_waveform_effects.py (0-based)
    effects_to_add,     \* effects_to_add: list of planned effects (waveform)
    fn,                 \* pure-function harness: which function was applied
    arg_t,              \* pure-function harness: time_point
    arg_eps,            \* pure-function harness: threshold
    arg_cap,            \* pure-function harness: max_duration
    arg_occ,            \* pure-function harness: occupied list
    result,             \* pure-function harness: value returned
    arg_beats,          \* pure-function harness: beats
    arg_start,          \* pure-function harness: start_beat_idx (0-based)
    arg_min,            \* pure-function harness: min_duration
    current_time,       \* current_time of add_continuous_effects.py
    pattern_idx,        \* pattern_idx of add_continuous_effects.py
    effect_count,       \* effect_count of add_continuous_effects.py
    last_node,          \* the node add_continuous_effects.py appended last
    data_marker,        \* the document holds the closing tag the effect data go before
    nodes_marker,       \* the document holds the closing tag the effect nodes go before
    doc_data,           \* effect-data blocks in the document as written back
    doc_nodes,          \* effect-node blocks in the document as written back
    script              \* the scheduler a run executes, "none" where the specification fixes it

vars == <<beats, downbeats, strong_beats, existing0, existing_effects, i, pc,
          new_effect_data, new_effect_nodes, effects_added, color_idx, iters,
          run, rerun, prev_out, beat_idx, effects_to_add,
          fn, arg_t, arg_eps, arg_cap, arg_occ, result,
          arg_beats, arg_start, arg_min,
          current_time, pattern_idx, effect_count, last_node,
          data_marker, nodes_marker, doc_data, doc_nodes, script>>

schedVars == <<beats, downbeats, strong_beats, existing0, existing_effects, i,
               pc, new_effect_data, new_effect_nodes, effects_added, color_idx,
               iters, run, rerun, prev_out, beat_idx, effects_to_add>>

fnVars == <<fn, arg_t, arg_eps, arg_cap, arg_occ, result>>

endArgVars == <<arg_beats, arg_start, arg_min>>

contVars == <<current_time, pattern_idx, effect_count, last_node>>

docVars == <<data_marker, nodes_marker, doc_data, doc_nodes, script>>

----------------------------------------------------------------------------
(* Bounds of the model.                                                    *)

MaxBeats == 4           \* longest beat list
MaxDownbeats == 1       \* most beats tagged as downbeats
MaxStrong == 1          \* most beats tagged as strong
MaxExisting == 1        \* most pre-existing intervals in the document
Origin == 580           \* first instant of the modelled stretch of the timeline (58.0 s)

(* Program constants, in ticks of 0.1 s.                                   *)

TicksPerMinute == 600   \* 60 s
GapThreshold == 3       \* 0.3 s
Lookahead == 20         \* start_beat_idx + 20
NumColors == 8          \* len(COLORS)
DownMaxDur == 100       \* 10.0 s
DownMinDur == 20        \* 2.0 s
BeatMaxDur == 20        \* 2.0 s
BeatMinDur == 5         \* 0.5 s

None == -1              \* Python None in a returned position

Min(a, b) == IF a < b THEN a ELSE b

(* Times beats may fall on, and times pre-existing effects start and end.  *)
(* Values uuid4 may return, and the palette entries random.sample is seen  *)
(* to draw the three spiral colours from.                                  *)
EffectIds == {"u1", "u2"}
SamplePalette == {0, 1, 2}

BeatTimes == {Origin + d : d \in {0, 5, 8, 9, 14, 25, 30, 130}}
ExTimes == {Origin + d : d \in {4, 6, 11, 25}}
ExIntervals == {<<s, e>> \in ExTimes \X ExTimes : s < e}

----------------------------------------------------------------------------
(* Duration strings "PT[<m>M]<s>S".                                        *)

(* The formatter with the modulo forgotten in the minutes branch.          *)
seconds_to_duration_nomod(seconds) ==
    IF seconds < TicksPerMinute
    THEN [hasM |-> FALSE, mins |-> 0, secs |-> seconds]
    ELSE [hasM |-> TRUE, mins |-> seconds \div TicksPerMinute, secs |-> seconds]

(* The formatter with the minutes part dropped.                            *)
seconds_to_duration_nomin(seconds) ==
    [hasM |-> FALSE, mins |-> 0, secs |-> seconds % TicksPerMinute]

seconds_to_duration(seconds) ==
    IF seconds < TicksPerMinute
    THEN [hasM |-> FALSE, mins |-> 0, secs |-> seconds]
    ELSE [hasM |-> TRUE, mins |-> seconds \div TicksPerMinute,
          secs |-> seconds % TicksPerMinute]

parse_duration(dur_str) ==
    LET mins == IF dur_str.hasM THEN dur_str.mins ELSE 0
        secs == dur_str.secs
    IN mins * TicksPerMinute + secs

----------------------------------------------------------------------------
(* Sorting of lists of (start, end) tuples, as list.sort() orders tuples.  *)

TupleLess(a, b) == a[1] < b[1] \/ (a[1] = b[1] /\ a[2] < b[2])

RECURSIVE InsertSorted(_, _)
InsertSorted(x, seq) ==
    IF seq = <<>> THEN <<x>>
    ELSE IF TupleLess(x, Head(seq)) THEN <<x>> \o seq
    ELSE <<Head(seq)>> \o InsertSorted(x, Tail(seq))

(* The list left in the order of its appends, list.sort() forgotten.       *)
SortTuplesNot(seq) == seq

RECURSIVE SortTuples(_)
SortTuples(seq) ==
    IF seq = <<>> THEN <<>>
    ELSE InsertSorted(Head(seq), SortTuples(Tail(seq)))

RECURSIVE SetToSortedSeq(_)
SetToSortedSeq(S) ==
    IF S = {} THEN <<>>
    ELSE LET m == CHOOSE x \in S : \A y \in S : x <= y
         IN <<m>> \o SetToSortedSeq(S \ {m})

----------------------------------------------------------------------------
(* is_gap: scan of the occupied list with early return.                    *)

(* is_gap with the margin forgotten after the end of an interval.          *)
RECURSIVE is_gap_no_end_margin(_, _, _)
is_gap_no_end_margin(time_point, occupied, threshold) ==
    IF occupied = <<>> THEN TRUE
    ELSE LET start == Head(occupied)[1]
             end == Head(occupied)[2]
         IN IF start - threshold <= time_point /\ time_point <= end
            THEN FALSE
            ELSE is_gap_no_end_margin(time_point, Tail(occupied), threshold)

(* is_gap with the boundaries of the widened interval excluded.            *)
RECURSIVE is_gap_strict(_, _, _)
is_gap_strict(time_point, occupied, threshold) ==
    IF occupied = <<>> THEN TRUE
    ELSE LET start == Head(occupied)[1]
             end == Head(occupied)[2]
         IN IF start - threshold < time_point /\ time_point < end + threshold
            THEN FALSE
            ELSE is_gap_strict(time_point, Tail(occupied), threshold)

(* is_gap with the margin taken off the interval instead of added to it.   *)
RECURSIVE is_gap_margin_inward(_, _, _)
is_gap_margin_inward(time_point, occupied, threshold) ==
    IF occupied = <<>> THEN TRUE
    ELSE LET start == Head(occupied)[1]
             end == Head(occupied)[2]
         IN IF start + threshold <= time_point /\ time_point <= end - threshold
            THEN FALSE
            ELSE is_gap_margin_inward(time_point, Tail(occupied), threshold)

RECURSIVE is_gap(_, _, _)
is_gap(time_point, occupied, threshold) ==
    IF occupied = <<>> THEN TRUE
    ELSE LET start == Head(occupied)[1]
             end == Head(occupied)[2]
         IN IF start - threshold <= time_point /\ time_point <= end + threshold
            THEN FALSE
            ELSE is_gap(time_point, Tail(occupied), threshold)

(* find_end_beat of add_beatnet_effects.py.  Indices are Python's, 0-based. *)

(* The overlap test of find_end_beat with the interval's two ends left out. *)
RECURSIVE EndOverlapsStrict(_, _)
EndOverlapsStrict(end_time, occupied) ==
    IF occupied = <<>> THEN FALSE
    ELSE IF Head(occupied)[1] < end_time /\ end_time < Head(occupied)[2]
         THEN TRUE
         ELSE EndOverlapsStrict(end_time, Tail(occupied))

RECURSIVE EndOverlaps(_, _)
EndOverlaps(end_time, occupied) ==
    IF occupied = <<>> THEN FALSE
    ELSE IF Head(occupied)[1] <= end_time /\ end_time <= Head(occupied)[2]
         THEN TRUE
         ELSE EndOverlaps(end_time, Tail(occupied))

NoEnd == [end_idx |-> None, end_time |-> None, duration |-> None]

RECURSIVE ScanEndBeat(_, _, _, _, _, _, _)
ScanEndBeat(j, stop, start_time, bs, occupied, min_duration, max_duration) ==
    IF j >= stop THEN NoEnd
    ELSE LET end_time == bs[j + 1]
             duration == end_time - start_time
         IN IF duration < min_duration
            THEN ScanEndBeat(j + 1, stop, start_time, bs, occupied, min_duration, max_duration)
            ELSE IF duration > max_duration THEN NoEnd
            ELSE IF EndOverlaps(end_time, occupied)
            THEN ScanEndBeat(j + 1, stop, start_time, bs, occupied, min_duration, max_duration)
            ELSE [end_idx |-> j, end_time |-> end_time, duration |-> duration]

find_end_beat(start_beat_idx, bs, occupied, min_duration, max_duration) ==
    ScanEndBeat(start_beat_idx + 1, Min(start_beat_idx + Lookahead, Len(bs)),
                bs[start_beat_idx + 1], bs, occupied, min_duration, max_duration)

----------------------------------------------------------------------------
(* Inputs of a run.                                                        *)

BoundedSubsets(S, n) == {T \in SUBSET S : Cardinality(T) <= n}

ExistingLists(n) ==
    UNION {{SortTuples(f) : f \in [1..k -> ExIntervals]} : k \in 0..n}

InitInputs(T, nb, nd, ns, ne) ==
    /\ \E B \in BoundedSubsets(T, nb) :
         /\ beats = SetToSortedSeq(B)
         /\ downbeats \in BoundedSubsets(B, nd)
         /\ strong_beats \in BoundedSubsets(B, ns)
    /\ existing0 \in ExistingLists(ne)
    /\ existing_effects = existing0

InitDocIdle ==
    /\ data_marker = TRUE
    /\ nodes_marker = TRUE
    /\ doc_data = <<>>
    /\ doc_nodes = <<>>
    /\ script = "none"

InitContinuousIdle ==
    /\ current_time = 0
    /\ pattern_idx = 0
    /\ effect_count = 0
    /\ last_node = <<>>

InitEndArgsIdle ==
    /\ arg_beats = <<>>
    /\ arg_start = 0
    /\ arg_min = 0

InitFnIdle ==
    /\ fn = "none"
    /\ arg_t = 0
    /\ arg_eps = 0
    /\ arg_cap = 0
    /\ arg_occ = <<>>
    /\ result = 0
    /\ InitEndArgsIdle
    /\ InitContinuousIdle

InitFn ==
    /\ InitFnIdle
    /\ InitDocIdle

----------------------------------------------------------------------------
(* add_beatnet_effects.py: the scheduling loop.                            *)

Kinds == {"pulse", "twinkle", "butterfly", "spiral", "wipe"}

effect_choices(is_downbeat) ==
    IF is_downbeat THEN {"spiral", "butterfly", "twinkle", "wipe"} ELSE {"pulse"}

max_dur(is_downbeat) == IF is_downbeat THEN DownMaxDur ELSE BeatMaxDur

min_dur(is_downbeat) == IF is_downbeat THEN DownMinDur ELSE BeatMinDur

(* Ordered samples of three distinct palette colours: random.sample(COLORS, 3). *)
SpiralSamples ==
    {s \in [1..3 -> SamplePalette] : \A a, b \in 1..3 : a # b => s[a] # s[b]}

(* The sub-parameter drawn for a kind: butterfly type, wipe direction,     *)
(* spiral colour sample; pulse and twinkle draw none.                      *)
Variants(effect_type) ==
    CASE effect_type = "butterfly" -> {<<t>> : t \in 1..5}
      [] effect_type = "wipe" -> {<<d>> : d \in 1..4}
      [] effect_type = "spiral" -> SpiralSamples
      [] OTHER -> {<<>>}

(* Colours the placement may receive: the rotation COLORS[color_idx % len]. *)
ColorChoicesAny(idx) == 0..(NumColors - 1)

ColorChoices(idx) == {idx % NumColors}

make_data(effect_id, effect_type, color, variant) ==
    [id |-> effect_id, kind |-> effect_type, color |-> color, variant |-> variant]

(* The node written under an id of its own.                                *)
make_effect_node_own_id(effect_id, start_time, time_span, type_id) ==
    [id |-> IF effect_id = "u1" THEN "u2" ELSE "u1", start |-> start_time,
     span |-> time_span, type |-> type_id]

make_effect_node(effect_id, start_time, time_span, type_id) ==
    [id |-> effect_id, start |-> start_time, span |-> time_span, type |-> type_id]

InitScheduler ==
    /\ i = 0
    /\ pc = "loop"
    /\ new_effect_data = <<>>
    /\ new_effect_nodes = <<>>
    /\ effects_added = 0
    /\ color_idx = 0
    /\ iters = 0

InitWaveformIdle ==
    /\ beat_idx = 0
    /\ effects_to_add = <<>>

InitRunOne ==
    /\ run = 1
    /\ rerun = "none"
    /\ prev_out = <<>>

Init ==
    /\ InitInputs(BeatTimes, MaxBeats, MaxDownbeats, 0, MaxExisting)
    /\ InitScheduler
    /\ InitWaveformIdle
    /\ InitRunOne
    /\ InitFn

beat_time == beats[i + 1]

is_downbeat == beat_time \in downbeats

(* The end beat found, with its index reported one too low.                *)
EndBeatIdxShort ==
    LET found == find_end_beat(i, beats, existing_effects, min_dur(is_downbeat),
                               max_dur(is_downbeat))
    IN IF found.end_idx = None THEN found ELSE [found EXCEPT !.end_idx = @ - 1]

EndBeat == find_end_beat(i, beats, existing_effects, min_dur(is_downbeat), max_dur(is_downbeat))

idleVars == <<beat_idx, effects_to_add, fn, arg_t, arg_eps, arg_cap, arg_occ, result,
              endArgVars, contVars, docVars>>

inputVars == <<beats, downbeats, strong_beats, existing0>>

(* lines 336-338: the beat is covered, i += 1 *)
SkipCovered ==
    /\ pc = "loop"
    /\ i < Len(beats)
    /\ ~is_gap(beat_time, existing_effects, GapThreshold)
    /\ i' = i + 1
    /\ iters' = iters + 1
    /\ UNCHANGED <<inputVars, existing_effects, pc, new_effect_data, new_effect_nodes,
                   effects_added, color_idx, run, rerun, prev_out, idleVars>>

(* The failed-beat branch with the increment before `continue` forgotten.  *)
SkipNoEndStuck ==
    /\ pc = "loop"
    /\ i < Len(beats)
    /\ is_gap(beat_time, existing_effects, GapThreshold)
    /\ EndBeat.end_idx = None
    /\ i' = i
    /\ iters' = iters + 1
    /\ UNCHANGED <<inputVars, existing_effects, pc, new_effect_data, new_effect_nodes,
                   effects_added, color_idx, run, rerun, prev_out, idleVars>>

(* lines 358-362: no end beat, i += 1 *)
SkipNoEnd ==
    /\ pc = "loop"
    /\ i < Len(beats)
    /\ is_gap(beat_time, existing_effects, GapThreshold)
    /\ EndBeat.end_idx = None
    /\ i' = i + 1
    /\ iters' = iters + 1
    /\ UNCHANGED <<inputVars, existing_effects, pc, new_effect_data, new_effect_nodes,
                   effects_added, color_idx, run, rerun, prev_out, idleVars>>

(* lines 364-401: an effect is created and fed back *)
Place ==
    /\ pc = "loop"
    /\ i < Len(beats)
    /\ is_gap(beat_time, existing_effects, GapThreshold)
    /\ EndBeat.end_idx # None
    /\ \E color \in ColorChoices(color_idx), effect_id \in EffectIds,
          effect_type \in effect_choices(is_downbeat) :
         \E variant \in Variants(effect_type) :
            /\ new_effect_data' =
                  Append(new_effect_data, make_data(effect_id, effect_type, color, variant))
            /\ new_effect_nodes' =
                  Append(new_effect_nodes,
                         make_effect_node(effect_id, seconds_to_duration(beat_time),
                                          seconds_to_duration(EndBeat.duration), effect_type))
    /\ effects_added' = effects_added + 1
    /\ color_idx' = color_idx + 1
    /\ i' = EndBeat.end_idx + 1
    /\ existing_effects' = SortTuples(Append(existing_effects, <<beat_time, EndBeat.end_time>>))
    /\ iters' = iters + 1
    /\ UNCHANGED <<inputVars, pc, run, rerun, prev_out, idleVars>>

(* line 332: the loop condition fails *)
LoopExit ==
    /\ pc = "loop"
    /\ i >= Len(beats)
    /\ pc' = "done"
    /\ UNCHANGED <<inputVars, existing_effects, i, new_effect_data, new_effect_nodes,
                   effects_added, color_idx, iters, run, rerun, prev_out, idleVars>>

Next == SkipCovered \/ SkipNoEnd \/ Place \/ LoopExit

Spec == Init /\ [][Next]_vars

----------------------------------------------------------------------------
(* A second run of add_beatnet_effects.py.                                 *)

(* What a run hands over, position by position: start, duration, kind, colour. *)
Output ==
    [k \in 1..Len(new_effect_nodes) |->
        [start |-> new_effect_nodes[k].start, span |-> new_effect_nodes[k].span,
         kind |-> new_effect_data[k].kind, color |-> new_effect_data[k].color]]

(* The extraction with the time span taken for the end.                    *)
WrittenIntervalsSpanAsEnd ==
    [k \in 1..Len(new_effect_nodes) |->
        <<parse_duration(new_effect_nodes[k].start), parse_duration(new_effect_nodes[k].span)>>]

(* The (start, end) pairs the script extracts from the nodes it wrote.     *)
WrittenIntervals ==
    [k \in 1..Len(new_effect_nodes) |->
        <<parse_duration(new_effect_nodes[k].start),
          parse_duration(new_effect_nodes[k].start) + parse_duration(new_effect_nodes[k].span)>>]

RestartScheduler ==
    /\ i' = 0
    /\ pc' = "loop"
    /\ new_effect_data' = <<>>
    /\ new_effect_nodes' = <<>>
    /\ effects_added' = 0
    /\ color_idx' = 0
    /\ iters' = 0

(* The script is started again on the same beat files and the same document. *)
RerunSame ==
    /\ pc = "done"
    /\ run = 1
    /\ run' = 2
    /\ rerun' = "same"
    /\ prev_out' = Output
    /\ existing_effects' = existing0
    /\ RestartScheduler
    /\ UNCHANGED <<inputVars, idleVars>>

(* The script is started again on the document the first run wrote: the    *)
(* nodes it appended are extracted with the pre-existing ones and sorted.  *)
RerunMerged ==
    /\ pc = "done"
    /\ run = 1
    /\ run' = 2
    /\ rerun' = "merged"
    /\ prev_out' = Output
    /\ existing0' = SortTuples(existing0 \o WrittenIntervals)
    /\ existing_effects' = existing0'
    /\ RestartScheduler
    /\ UNCHANGED <<beats, downbeats, strong_beats, idleVars>>

NextRerun == Next \/ RerunMerged

SpecRerun == Init /\ [][NextRerun]_vars

(* The two-run comparison draws its beats from fewer instants.             *)
TwiceBeatTimes == {Origin + d : d \in {0, 5, 9, 14, 25, 30}}

InitTwice ==
    /\ InitInputs(TwiceBeatTimes, MaxBeats, MaxDownbeats, 0, MaxExisting)
    /\ InitScheduler
    /\ InitWaveformIdle
    /\ InitRunOne
    /\ InitFn

NextTwice == Next \/ RerunSame

SpecTwice == InitTwice /\ [][NextTwice]_vars

----------------------------------------------------------------------------
(* add_waveform_effects.py: the planning loop.                             *)

WfGapThreshold == 3     \* 0.3 s, default threshold of is_gap
WfDefaultMin == 5       \* 0.5 s, default min_duration
WfDefaultMax == 100     \* 10.0 s, default max_duration
WfDownMin == 10         \* 1.0 s
WfDownMax == 80         \* 8.0 s
WfStrongMin == 7        \* 0.7 s
WfStrongMax == 40       \* 4.0 s
WfBeatMax == 20         \* 2.0 s
WfLookahead == 20       \* start_beat_idx + 20
WfLongDown == 40        \* 4.0 s
WfLongStrong == 20      \* 2.0 s

(* find_end_beat with the cap of the regular tier forgotten.               *)
wf_find_end_beat_uncapped(start_beat_idx, bs, occupied, down, strong, min_duration, max_duration) ==
    LET lo == IF down THEN WfDownMin ELSE IF strong THEN WfStrongMin ELSE min_duration
        hi == IF down THEN Min(max_duration, WfDownMax)
              ELSE IF strong THEN Min(max_duration, WfStrongMax)
              ELSE max_duration
    IN ScanEndBeat(start_beat_idx + 1, Min(start_beat_idx + WfLookahead, Len(bs)),
                   bs[start_beat_idx + 1], bs, occupied, lo, hi)

(* find_end_beat with the scan begun one beat too far.                     *)
wf_find_end_beat_from_second(start_beat_idx, bs, occupied, down, strong, min_duration, max_duration) ==
    LET lo == IF down THEN WfDownMin ELSE IF strong THEN WfStrongMin ELSE min_duration
        hi == IF down THEN Min(max_duration, WfDownMax)
              ELSE IF strong THEN Min(max_duration, WfStrongMax)
              ELSE Min(max_duration, WfBeatMax)
    IN ScanEndBeat(start_beat_idx + 2, Min(start_beat_idx + WfLookahead, Len(bs)),
                   bs[start_beat_idx + 1], bs, occupied, lo, hi)

wf_find_end_beat(start_beat_idx, bs, occupied, down, strong, min_duration, max_duration) ==
    LET lo == IF down THEN WfDownMin ELSE IF strong THEN WfStrongMin ELSE min_duration
        hi == IF down THEN Min(max_duration, WfDownMax)
              ELSE IF strong THEN Min(max_duration, WfStrongMax)
              ELSE Min(max_duration, WfBeatMax)
    IN ScanEndBeat(start_beat_idx + 1, Min(start_beat_idx + WfLookahead, Len(bs)),
                   bs[start_beat_idx + 1], bs, occupied, lo, hi)

(* The choice of kinds with the strong tier looked at before the downbeat. *)
wf_effect_types_strong_first(down, strong, duration) ==
    IF down /\ duration >= WfLongDown THEN {"spiral", "butterfly"}
    ELSE IF strong /\ duration >= WfLongStrong THEN {"wipe", "twinkle", "butterfly"}
    ELSE IF strong THEN {"pulse", "twinkle"}
    ELSE IF down THEN {"wipe", "twinkle", "butterfly"}
    ELSE {"pulse"}

(* lines 372-383: the kinds random.choice may return *)
wf_effect_types(down, strong, duration) ==
    IF down /\ duration >= WfLongDown THEN {"spiral", "butterfly"}
    ELSE IF down \/ (strong /\ duration >= WfLongStrong) THEN {"wipe", "twinkle", "butterfly"}
    ELSE IF strong THEN {"pulse", "twinkle"}
    ELSE {"pulse"}

(* line 385: random.choice(COLORS) *)
WfColorChoices == 0..(NumColors - 1)

(* Times the beats of the waveform analysis may fall on.                   *)
WfBeatTimes == {Origin + d : d \in {0, 7, 9, 20, 80}}

InitBeatnetIdle ==
    /\ i = 0
    /\ new_effect_data = <<>>
    /\ new_effect_nodes = <<>>
    /\ effects_added = 0
    /\ color_idx = 0

InitWaveform ==
    /\ InitInputs(WfBeatTimes, MaxBeats, MaxDownbeats, MaxStrong, MaxExisting)
    /\ InitBeatnetIdle
    /\ beat_idx = 0
    /\ effects_to_add = <<>>
    /\ pc = "loop"
    /\ iters = 0
    /\ InitRunOne
    /\ InitFn

wf_beat_time == beats[beat_idx + 1]

wf_is_downbeat == wf_beat_time \in downbeats

wf_is_strong == wf_beat_time \in strong_beats

(* The end beat found, with its index reported one too low.                *)
WfEndBeatIdxShort ==
    LET found == wf_find_end_beat(beat_idx, beats, existing_effects, wf_is_downbeat,
                                  wf_is_strong, WfDefaultMin, WfDefaultMax)
    IN IF found.end_idx = None THEN found ELSE [found EXCEPT !.end_idx = @ - 1]

WfEndBeat ==
    wf_find_end_beat(beat_idx, beats, existing_effects, wf_is_downbeat, wf_is_strong,
                     WfDefaultMin, WfDefaultMax)

wfQuietVars == <<i, new_effect_data, new_effect_nodes, effects_added, color_idx,
                 fn, arg_t, arg_eps, arg_cap, arg_occ, result, endArgVars, contVars>>

wfIdleVars == <<wfQuietVars, run, rerun, prev_out, docVars>>

(* lines 359, 401: the beat is covered, beat_idx += 1 *)
WfSkipCovered ==
    /\ pc = "loop"
    /\ beat_idx < Len(beats)
    /\ ~is_gap(wf_beat_time, existing_effects, WfGapThreshold)
    /\ beat_idx' = beat_idx + 1
    /\ iters' = iters + 1
    /\ UNCHANGED <<inputVars, existing_effects, pc, effects_to_add, wfIdleVars>>

(* lines 365-370, 401: no end beat, beat_idx += 1 *)
WfSkipNoEnd ==
    /\ pc = "loop"
    /\ beat_idx < Len(beats)
    /\ is_gap(wf_beat_time, existing_effects, WfGapThreshold)
    /\ WfEndBeat.end_time = None
    /\ beat_idx' = beat_idx + 1
    /\ iters' = iters + 1
    /\ UNCHANGED <<inputVars, existing_effects, pc, effects_to_add, wfIdleVars>>

(* lines 370-399: an effect is planned *)
WfPlace ==
    /\ pc = "loop"
    /\ beat_idx < Len(beats)
    /\ is_gap(wf_beat_time, existing_effects, WfGapThreshold)
    /\ WfEndBeat.end_time # None
    /\ \E effect_type \in wf_effect_types(wf_is_downbeat, wf_is_strong, WfEndBeat.duration),
          color \in WfColorChoices :
         effects_to_add' =
            Append(effects_to_add,
                   [start_time |-> wf_beat_time, end_time |-> WfEndBeat.end_time,
                    duration |-> WfEndBeat.duration, effect_type |-> effect_type,
                    color |-> color, is_downbeat |-> wf_is_downbeat,
                    is_strong |-> wf_is_strong])
    /\ beat_idx' = WfEndBeat.end_idx + 1
    /\ iters' = iters + 1
    /\ UNCHANGED <<inputVars, existing_effects, pc, wfIdleVars>>

(* line 355: the loop condition fails *)
WfLoopExit ==
    /\ pc = "loop"
    /\ beat_idx >= Len(beats)
    /\ pc' = "planned"
    /\ UNCHANGED <<inputVars, existing_effects, beat_idx, effects_to_add, iters, wfIdleVars>>

NextWaveform == WfSkipCovered \/ WfSkipNoEnd \/ WfPlace \/ WfLoopExit

SpecWaveform == InitWaveform /\ [][NextWaveform]_vars

(* lines 420-421: start and duration as written to the effect node *)
WfEmittedStart(k) == parse_duration(seconds_to_duration(effects_to_add[k].start_time))

WfEmittedDuration(k) == parse_duration(seconds_to_duration(effects_to_add[k].duration))

----------------------------------------------------------------------------
(* is_gap and find_gap_duration (add_beat_synced_effects.py) applied to    *)
(* arbitrary arguments.                                                    *)

GapBuffer == 1          \* 0.1 s, "Leave small gap"

FnHorizon == 4          \* latest instant of the arguments
FnMaxOcc == 2           \* longest occupied list of the arguments

(* The scan with the test `start > time_point` forgotten.                  *)
RECURSIVE GapScanNoLower(_, _, _)
GapScanNoLower(end_time, time_point, occupied) ==
    IF occupied = <<>> THEN end_time
    ELSE LET start == Head(occupied)[1]
         IN GapScanNoLower(IF start < end_time THEN start - GapBuffer ELSE end_time,
                           time_point, Tail(occupied))

(* lines 88-90: the for loop, carrying end_time *)
RECURSIVE GapScan(_, _, _)
GapScan(end_time, time_point, occupied) ==
    IF occupied = <<>> THEN end_time
    ELSE LET start == Head(occupied)[1]
         IN GapScan(IF start > time_point /\ start < end_time
                    THEN start - GapBuffer ELSE end_time,
                    time_point, Tail(occupied))

find_gap_duration(time_point, occupied, max_duration) ==
    Min(GapScan(time_point + max_duration, time_point, occupied) - time_point, max_duration)

FnTimes == 0..FnHorizon
FnMargins == {0, 1, 2}
FnCaps == {1, 2, 3}
FnIntervals == {<<s, e>> \in FnTimes \X FnTimes : s <= e}
FnLists == UNION {[1..k -> FnIntervals] : k \in 0..FnMaxOcc}

InitApply ==
    /\ beats = <<>>
    /\ downbeats = {}
    /\ strong_beats = {}
    /\ existing0 = <<>>
    /\ existing_effects = <<>>
    /\ InitBeatnetIdle
    /\ InitWaveformIdle
    /\ pc = "apply"
    /\ iters = 0
    /\ InitRunOne
    /\ fn = "none"
    /\ arg_t \in FnTimes
    /\ arg_eps \in FnMargins
    /\ arg_cap \in FnCaps
    /\ arg_occ \in FnLists
    /\ result = 0
    /\ InitEndArgsIdle
    /\ InitContinuousIdle
    /\ InitDocIdle

ApplyIsGap ==
    /\ fn = "none"
    /\ fn' = "is_gap"
    /\ result' = is_gap(arg_t, arg_occ, arg_eps)
    /\ UNCHANGED <<schedVars, arg_t, arg_eps, arg_cap, arg_occ, endArgVars, contVars, docVars>>

ApplyFindGapDuration ==
    /\ fn = "none"
    /\ fn' = "find_gap_duration"
    /\ result' = find_gap_duration(arg_t, arg_occ, arg_cap)
    /\ UNCHANGED <<schedVars, arg_t, arg_eps, arg_cap, arg_occ, endArgVars, contVars, docVars>>

NextApply == ApplyIsGap \/ ApplyFindGapDuration

SpecApply == InitApply /\ [][NextApply]_vars

----------------------------------------------------------------------------
(* Properties of add_beatnet_effects.py.                                   *)

(* The emitted effects, as read back from the effect nodes.                *)
Emitted == 1..Len(new_effect_nodes)

EmittedStart(k) == parse_duration(new_effect_nodes[k].start)

EmittedEnd(k) == EmittedStart(k) + parse_duration(new_effect_nodes[k].span)

(* C1: every emitted effect interval [start, end] is disjoint from every   *)
(* pre-existing interval, also from one lying strictly between the         *)
(* effect's start beat and its end beat.                                   *)
C1_DisjointFromExisting ==
    \A k \in Emitted : \A m \in 1..Len(existing0) :
        EmittedEnd(k) < existing0[m][1] \/ existing0[m][2] < EmittedStart(k)

(* C2: of two emitted effects A then B, B starts more than the margin      *)
(* (0.3 s) after A ends.                                                   *)
C2_SeparatedByMargin ==
    \A a \in Emitted : \A b \in Emitted :
        a < b => EmittedStart(b) > EmittedEnd(a) + GapThreshold

C2_Witness ==
    /\ pc = "done"
    /\ Len(new_effect_nodes) >= 2
    /\ EmittedStart(2) <= EmittedEnd(1) + GapThreshold + 1

(* C3: every emitted effect starts on an input beat and its start plus its *)
(* emitted duration is a later input beat.                                 *)
C3_StartAndEndOnBeats ==
    \A k \in Emitted :
        \E a \in 1..Len(beats) : \E b \in 1..Len(beats) :
            /\ a < b
            /\ beats[a] = EmittedStart(k)
            /\ beats[b] = EmittedEnd(k)

C3_Witness ==
    /\ pc = "done"
    /\ \E k \in Emitted : new_effect_nodes[k].start.hasM
    /\ \E k \in Emitted : ~new_effect_nodes[k].start.hasM

(* C7: every loop iteration strictly advances the cursor, by one on a      *)
(* skipped or failed beat and past the end beat on a placement, so the     *)
(* loop has run at most len(beats) iterations when its guard fails.        *)
C7_CursorAdvances ==
    /\ [][iters' = iters + 1 =>
            /\ i' > i
            /\ (effects_added' = effects_added => i' = i + 1)
            /\ (effects_added' # effects_added => i' = EndBeat.end_idx + 1)]_vars
    /\ [](iters <= i /\ i <= Len(beats))

C7_Witness ==
    /\ pc = "done"
    /\ effects_added > 0
    /\ iters < Len(beats)
    /\ iters > effects_added

(* C8: when the cursor has passed the last beat the emitted effects are in *)
(* strictly increasing start-time order.                                   *)
C8_EmittedInTimeOrder ==
    pc = "done" =>
        \A a \in Emitted : \A b \in Emitted : a < b => EmittedStart(a) < EmittedStart(b)

C8_Witness ==
    /\ pc = "done"
    /\ Len(new_effect_nodes) >= 2
    /\ EmittedStart(1) < TicksPerMinute
    /\ EmittedStart(2) >= TicksPerMinute

(* C5: a second run on the document the first run wrote emits no effect.   *)
C5_SecondRunEmitsNothing ==
    (run = 2 /\ rerun = "merged") => (new_effect_nodes = <<>> /\ effects_added = 0)

C5_Witness ==
    /\ run = 2
    /\ rerun = "merged"
    /\ pc = "done"
    /\ Len(prev_out) >= 1
    /\ Len(existing0) > Len(prev_out)
    /\ \E k \in 1..Len(beats) : is_gap(beats[k], existing0, GapThreshold)

----------------------------------------------------------------------------
(* Properties of add_waveform_effects.py.                                  *)

(* C4: every emitted effect's duration lies in the window of its start     *)
(* beat's tier (downbeat [1.0, 8.0], strong but not downbeat [0.7, 4.0],   *)
(* normal [0.5, 2.0]) and in its kind's range (Pulse at most 2.0 s, the    *)
(* others at most 10.0 s).                                                 *)
C4_DurationInTierAndKindRange ==
    \A k \in 1..Len(effects_to_add) :
        LET e == effects_to_add[k]
            d == WfEmittedDuration(k)
            down == WfEmittedStart(k) \in downbeats
            strong == WfEmittedStart(k) \in strong_beats
        IN /\ down => (10 <= d /\ d <= 80)
           /\ (strong /\ ~down) => (7 <= d /\ d <= 40)
           /\ (~strong /\ ~down) => (5 <= d /\ d <= 20)
           /\ e.effect_type = "pulse" => d <= 20
           /\ e.effect_type # "pulse" => d <= 100

C4_Witness ==
    /\ pc = "planned"
    /\ \E k \in 1..Len(effects_to_add) :
          /\ effects_to_add[k].effect_type = "pulse"
          /\ effects_to_add[k].is_strong
    /\ \E k \in 1..Len(effects_to_add) :
          /\ effects_to_add[k].effect_type # "pulse"
          /\ effects_to_add[k].is_downbeat

----------------------------------------------------------------------------
(* Properties of is_gap and find_gap_duration.                             *)

(* C9: is_gap(t, occupied, eps) is true if and only if no occupied         *)
(* interval (s, e) has s - eps <= t <= e + eps, boundaries included.       *)
C9_IsGapIffNoIntervalNear ==
    fn = "is_gap" =>
        (result = TRUE <=>
            ~\E m \in 1..Len(arg_occ) :
                /\ arg_occ[m][1] - arg_eps <= arg_t
                /\ arg_t <= arg_occ[m][2] + arg_eps)

C9_Witness ==
    /\ fn = "is_gap"
    /\ result = FALSE
    /\ Len(arg_occ) = 2
    /\ arg_eps > 0
    /\ arg_t = arg_occ[2][2] + arg_eps
    /\ arg_t < arg_occ[1][1] - arg_eps

SortedByStart(occ) == \A a \in 1..Len(occ) : \A b \in 1..Len(occ) : a < b => occ[a][1] <= occ[b][1]

StartsAfter(t, occ) == {occ[m][1] : m \in {n \in 1..Len(occ) : occ[n][1] > t}}

(* C10: over an occupied list sorted by start, find_gap_duration(t,         *)
(* occupied, cap) returns min(cap, s - t - 0.1) with s the start of the    *)
(* first occupied interval beginning after t when an interval begins       *)
(* within (t, t + cap), and cap when none does.                            *)
C10_GapDuration ==
    (fn = "find_gap_duration" /\ SortedByStart(arg_occ)) =>
        IF \E s \in StartsAfter(arg_t, arg_occ) : s < arg_t + arg_cap
        THEN LET first == CHOOSE s \in StartsAfter(arg_t, arg_occ) :
                              \A u \in StartsAfter(arg_t, arg_occ) : s <= u
             IN result = Min(arg_cap, first - arg_t - 1)
        ELSE result = arg_cap

C10_Witness ==
    /\ fn = "find_gap_duration"
    /\ SortedByStart(arg_occ)
    /\ Len(arg_occ) = 2
    /\ arg_occ[1][1] <= arg_t
    /\ arg_occ[2][1] > arg_t
    /\ result = arg_occ[2][1] - arg_t - 1
    /\ result < arg_cap

----------------------------------------------------------------------------
(* find_end_beat applied to drawn arguments.                               *)

EbMaxLen == 22          \* longest evenly spaced beat list
EbShort == 4            \* longest unevenly spaced beat list
EbMaxOcc == 2           \* most occupied intervals handed to find_end_beat

EbSteps == {1, 5}
EbTimes == {0, 4, 5, 20, 21, 25}
EbEnds == {5, 10, 20, 95}
EbWindows == {<<BeatMinDur, BeatMaxDur>>, <<DownMinDur, DownMaxDur>>}

EbRegular == {[k \in 1..n |-> (k - 1) * step] : n \in 1..EbMaxLen, step \in EbSteps}
EbIrregular == {SetToSortedSeq(B) : B \in BoundedSubsets(EbTimes, EbShort) \ {{}}}
EbIntervals == {<<s, e>> \in EbEnds \X EbEnds : s < e}
EbOccupied == UNION {{SortTuples(f) : f \in [1..k -> EbIntervals]} : k \in 0..EbMaxOcc}

InitEndBeat ==
    /\ beats = <<>>
    /\ downbeats = {}
    /\ strong_beats = {}
    /\ existing0 = <<>>
    /\ existing_effects = <<>>
    /\ InitBeatnetIdle
    /\ InitWaveformIdle
    /\ pc = "apply"
    /\ iters = 0
    /\ InitRunOne
    /\ fn = "none"
    /\ arg_t = 0
    /\ arg_eps = 0
    /\ result = 0
    /\ arg_beats \in EbRegular \cup EbIrregular
    /\ arg_start \in 0..(Len(arg_beats) - 1)
    /\ \E w \in EbWindows : arg_min = w[1] /\ arg_cap = w[2]
    /\ arg_occ \in EbOccupied
    /\ InitContinuousIdle
    /\ InitDocIdle

ApplyFindEndBeat ==
    /\ fn = "none"
    /\ fn' = "find_end_beat"
    /\ result' = find_end_beat(arg_start, arg_beats, arg_occ, arg_min, arg_cap)
    /\ UNCHANGED <<schedVars, arg_t, arg_eps, arg_cap, arg_occ, endArgVars, contVars, docVars>>

NextEndBeat == ApplyFindEndBeat

SpecEndBeat == InitEndBeat /\ [][NextEndBeat]_vars

(* The candidates of one call, as Python indices, and what the scan makes  *)
(* of each.                                                                *)
EbDuration(j) == arg_beats[j + 1] - arg_beats[arg_start + 1]

EbOnOccupied(j) ==
    \E m \in 1..Len(arg_occ) :
        arg_occ[m][1] <= arg_beats[j + 1] /\ arg_beats[j + 1] <= arg_occ[m][2]

EbSkipped(j) == EbDuration(j) < arg_min \/ (EbDuration(j) <= arg_cap /\ EbOnOccupied(j))

EbFirstKept(C) ==
    IF \E j \in C : ~EbSkipped(j)
    THEN LET j == CHOOSE k \in C : ~EbSkipped(k) /\ \A m \in C : m < k => EbSkipped(m)
         IN IF EbDuration(j) > arg_cap THEN NoEnd
            ELSE [end_idx |-> j, end_time |-> arg_beats[j + 1], duration |-> EbDuration(j)]
    ELSE NoEnd

EbScanned == (arg_start + 1)..(Min(arg_start + Lookahead, Len(arg_beats)) - 1)

(* C11: find_end_beat goes through the candidates after the start beat in  *)
(* beat order; a candidate shorter than the minimum is skipped, a candidate*)
(* whose timestamp lies in an occupied interval, ends included and with no *)
(* margin, is skipped, the first candidate longer than the maximum ends    *)
(* the scan with no placement, and the first candidate not skipped is the  *)
(* one returned.                                                           *)
C11_FirstCandidateNotSkipped ==
    fn = "find_end_beat" => result = EbFirstKept(EbScanned)

C11_Witness ==
    /\ fn = "find_end_beat"
    /\ result.end_idx # None
    /\ \E j \in EbScanned : j < result.end_idx /\ EbDuration(j) < arg_min
    /\ \E j \in EbScanned, m \in 1..Len(arg_occ) :
          /\ j < result.end_idx
          /\ EbDuration(j) >= arg_min
          /\ arg_beats[j + 1] \in {arg_occ[m][1], arg_occ[m][2]}

(* C12: the candidates of find_end_beat are the 20 beats that follow the   *)
(* start beat, indices start+1 .. start+20 cut at the end of the list, and *)
(* no placement is reported only when none of those is accepted.           *)
EbTwentyFollowing == (arg_start + 1)..(Min(arg_start + 20, Len(arg_beats) - 1))

C12_TwentyCandidates ==
    fn = "find_end_beat" => result = EbFirstKept(EbTwentyFollowing)

----------------------------------------------------------------------------
(* add_waveform_effects.py on the worked example: beats on every second    *)
(* from 0 s to 12 s, beat 4 a downbeat, intervals (0, 2) and (10, 12)      *)
(* already in the document.                                                *)

ExampleBeats == [k \in 1..13 |-> (k - 1) * 10]
ExampleDownbeats == {40}
ExampleExisting == << <<0, 20>>, <<100, 120>> >>

InitExample ==
    /\ beats = ExampleBeats
    /\ downbeats = ExampleDownbeats
    /\ strong_beats = {}
    /\ existing0 = ExampleExisting
    /\ existing_effects = existing0
    /\ InitBeatnetIdle
    /\ InitWaveformIdle
    /\ pc = "loop"
    /\ iters = 0
    /\ InitRunOne
    /\ InitFn

SpecExample == InitExample /\ [][NextWaveform]_vars

(* C13: on the worked example the scheduler skips beats 0, 1 and 2, emits  *)
(* as its first effect a Pulse on [3, 5] and resumes scanning at beat 6.   *)
C13_FirstPulseThreeToFive ==
    /\ effects_to_add = <<>> /\ pc = "loop" => beat_idx = iters /\ beat_idx <= 3
    /\ effects_to_add # <<>> =>
          /\ effects_to_add[1].start_time = 30
          /\ effects_to_add[1].end_time = 50
          /\ effects_to_add[1].effect_type = "pulse"
    /\ Len(effects_to_add) = 1 /\ iters = 4 => beat_idx = 6

(* C13 as the code runs it: beats 0, 1 and 2 are skipped, the first effect *)
(* is a Pulse on [3, 4], the first candidate find_end_beat accepts, and    *)
(* the scan resumes at beat 5.                                             *)
C13_FirstPulseThreeToFour ==
    /\ effects_to_add = <<>> /\ pc = "loop" => beat_idx = iters /\ beat_idx <= 3
    /\ effects_to_add # <<>> =>
          /\ effects_to_add[1].start_time = 30
          /\ effects_to_add[1].end_time = 40
          /\ effects_to_add[1].effect_type = "pulse"
    /\ Len(effects_to_add) = 1 /\ iters = 4 => beat_idx = 5

C13_Witness ==
    /\ beats = ExampleBeats
    /\ existing_effects = ExampleExisting
    /\ Len(effects_to_add) = 1
    /\ iters = 4
    /\ beat_idx = 5

----------------------------------------------------------------------------
(* add_beatnet_effects.py on inputs that leave no beat in a gap.           *)

NoBeatInGap ==
    \A k \in 1..Len(beats) :
        \E m \in 1..Len(existing0) :
            /\ existing0[m][1] - GapThreshold <= beats[k]
            /\ beats[k] <= existing0[m][2] + GapThreshold

(* C14: when every beat lies within 0.3 s of some existing interval, or    *)
(* the beat list is empty, the loop of add_beatnet_effects.py only skips:  *)
(* it runs one iteration per beat and ends in the ordinary way, with no    *)
(* effect emitted and the occupied list as it was read.                    *)
C14_NoGapBeatEmptyResult ==
    (run = 1 /\ NoBeatInGap) =>
        /\ new_effect_nodes = <<>>
        /\ new_effect_data = <<>>
        /\ effects_added = 0
        /\ existing_effects = existing0
        /\ pc \in {"loop", "done"}
        /\ i = iters
        /\ i <= Len(beats)
        /\ pc = "loop" => ENABLED (SkipCovered \/ LoopExit)

C14_Witness ==
    /\ run = 1
    /\ NoBeatInGap
    /\ Len(beats) >= 2
    /\ pc = "done"
    /\ iters = Len(beats)
    /\ new_effect_nodes = <<>>

----------------------------------------------------------------------------
(* add_beatnet_effects.py on malformed input: a beat file whose times are  *)
(* not strictly increasing, or a document with an interval of no length    *)
(* (a TimeSpan parse_duration reads as 0).  Lines 34-70 load both as they  *)
(* come.                                                                   *)

MalMaxBeats == 3        \* longest beat list of a malformed input

MalBeatTimes == {Origin + d : d \in {0, 5, 14}}
MalBeatLists == UNION {[1..n -> MalBeatTimes] : n \in 0..MalMaxBeats}
MalIntervals == {<<s, e>> \in ExTimes \X ExTimes : s <= e}
MalExisting == UNION {{SortTuples(f) : f \in [1..k -> MalIntervals]} : k \in 0..MaxExisting}

StrictlyIncreasing(bs) == \A k \in 1..(Len(bs) - 1) : bs[k] < bs[k + 1]

MalformedInput ==
    \/ ~StrictlyIncreasing(beats)
    \/ \E m \in 1..Len(existing0) : existing0[m][2] <= existing0[m][1]

InitMalformed ==
    /\ beats \in MalBeatLists
    /\ downbeats \in BoundedSubsets({beats[k] : k \in 1..Len(beats)}, MaxDownbeats)
    /\ strong_beats = {}
    /\ existing0 \in MalExisting
    /\ existing_effects = existing0
    /\ MalformedInput
    /\ InitScheduler
    /\ InitWaveformIdle
    /\ InitRunOne
    /\ InitFn

SpecMalformed == InitMalformed /\ [][Next]_vars

(* C15: on malformed input (beats not strictly increasing, or an existing  *)
(* interval of zero or negative length) the pass fails at once: the loop   *)
(* runs no iteration, emits no effect and does not end in the ordinary way.*)
C15_MalformedInputFails ==
    MalformedInput =>
        /\ iters = 0
        /\ new_effect_nodes = <<>>
        /\ pc # "done"

----------------------------------------------------------------------------
(* add_beat_synced_effects.py: effects that start on a drum beat and run   *)
(* for the free span after it.  The variable beats holds drum_beats.       *)

SyGapThreshold == 3     \* 0.3 s, threshold of the beats_in_gaps filter
SyMaxGap == 100         \* 10.0 s, max_duration handed to find_gap_duration
SyLongGap == 50         \* 5.0 s, a gap from which the long kinds are drawn
SyLongCap == 80         \* 8.0 s
SyMediumGap == 25       \* 2.5 s, a gap from which the medium kinds are drawn
SyMediumCap == 50       \* 5.0 s
SyPulseCap == 20        \* 2.0 s

(* Times the drum beats may fall on.                                       *)
SyBeatTimes == {Origin + d : d \in {-25, -20, 0, 9, 30}}

(* The filter with no margin around the occupied intervals.               *)
beats_in_gaps_no_margin == SelectSeq(beats, LAMBDA b : is_gap(b, existing_effects, 0))

(* lines 310-314 *)
beats_in_gaps == SelectSeq(beats, LAMBDA b : is_gap(b, existing_effects, SyGapThreshold))

sy_beat_time == beats_in_gaps[i + 1]

gap_duration == find_gap_duration(sy_beat_time, existing_effects, SyMaxGap)

(* lines 346-380: the kinds random.choice may return *)
sy_effect_choices(gap) ==
    IF gap >= SyLongGap THEN {"spiral", "butterfly", "twinkle"}
    ELSE IF gap >= SyMediumGap THEN {"wipe", "twinkle", "butterfly"}
    ELSE {"pulse"}

(* The duration with the caps of the tiers forgotten.                      *)
sy_duration_uncapped(gap) == gap

(* lines 349, 365, 380 *)
sy_duration(gap) ==
    IF gap >= SyLongGap THEN Min(gap, SyLongCap)
    ELSE IF gap >= SyMediumGap THEN Min(gap, SyMediumCap)
    ELSE Min(gap, SyPulseCap)

(* The sub-parameter drawn for a kind: the long tier draws a butterfly     *)
(* type, the medium tier draws a wipe direction out of four.               *)
sy_variants(gap, effect_type) ==
    IF gap >= SyLongGap
    THEN CASE effect_type = "butterfly" -> {<<t>> : t \in 1..5}
           [] effect_type = "spiral" -> SpiralSamples
           [] OTHER -> {<<>>}
    ELSE CASE effect_type = "wipe" -> {<<d>> : d \in 1..4}
           [] OTHER -> {<<>>}

(* The cursor moved on by one beat only.                                   *)
SkipOneBeat(j, bs, limit) == j + 1

(* lines 393-394: skip the beats the effect covers *)
RECURSIVE SkipBeatsBefore(_, _, _)
SkipBeatsBefore(j, bs, limit) ==
    IF j < Len(bs) /\ bs[j + 1] < limit THEN SkipBeatsBefore(j + 1, bs, limit) ELSE j

InitSynced ==
    /\ InitInputs(SyBeatTimes, MaxBeats, 0, 0, MaxExisting)
    /\ InitScheduler
    /\ InitWaveformIdle
    /\ InitRunOne
    /\ InitFn

(* lines 328-394: one iteration of the loop; every iteration emits *)
SyPlace ==
    /\ pc = "loop"
    /\ i < Len(beats_in_gaps)
    /\ \E color \in ColorChoices(color_idx), effect_id \in EffectIds,
          effect_type \in sy_effect_choices(gap_duration) :
         \E variant \in sy_variants(gap_duration, effect_type) :
            /\ new_effect_data' =
                  Append(new_effect_data, make_data(effect_id, effect_type, color, variant))
            /\ new_effect_nodes' =
                  Append(new_effect_nodes,
                         make_effect_node(effect_id, seconds_to_duration(sy_beat_time),
                                          seconds_to_duration(sy_duration(gap_duration)),
                                          effect_type))
    /\ effects_added' = effects_added + 1
    /\ color_idx' = color_idx + 1
    /\ i' = SkipBeatsBefore(i, beats_in_gaps, sy_beat_time + sy_duration(gap_duration))
    /\ iters' = iters + 1
    /\ UNCHANGED <<inputVars, existing_effects, pc, run, rerun, prev_out, idleVars>>

(* line 328: the loop condition fails *)
SyLoopExit ==
    /\ pc = "loop"
    /\ i >= Len(beats_in_gaps)
    /\ pc' = "done"
    /\ UNCHANGED <<inputVars, existing_effects, i, new_effect_data, new_effect_nodes,
                   effects_added, color_idx, iters, run, rerun, prev_out, idleVars>>

NextSynced == SyPlace \/ SyLoopExit

SpecSynced == InitSynced /\ [][NextSynced]_vars

(* The free span after the start of the k-th emitted effect.               *)
SyFreeSpan(k) == find_gap_duration(EmittedStart(k), existing0, SyMaxGap)

(* C16: in add_beat_synced_effects.py no effect is placed at a gap beat    *)
(* whose free span is below the minimum of the policy window (0.5 s, the   *)
(* minimum the repository's schedulers use for a Pulse): every emitted     *)
(* effect starts where the free span is at least that minimum.             *)
C16_NoEffectBelowMin ==
    \A k \in Emitted : SyFreeSpan(k) >= BeatMinDur

(* C16 as the code runs it: every iteration of the loop emits an effect,   *)
(* whatever the free span; its duration is the free span cut to the cap of *)
(* its tier and the cursor moves past the beats it covers.                 *)
C16_EveryGapBeatGetsEffect ==
    /\ effects_added = iters
    /\ Len(new_effect_nodes) = iters
    /\ i >= iters
    /\ \A k \in Emitted :
          LET span == SyFreeSpan(k)
              d == EmittedEnd(k) - EmittedStart(k)
          IN /\ span >= SyGapThreshold - GapBuffer
             /\ d = Min(span, IF span >= SyLongGap THEN SyLongCap
                              ELSE IF span >= SyMediumGap THEN SyMediumCap
                              ELSE SyPulseCap)

C16_Witness ==
    /\ pc = "done"
    /\ \E k \in Emitted : SyFreeSpan(k) < BeatMinDur /\ new_effect_nodes[k].type = "pulse"
    /\ \E k \in Emitted : SyFreeSpan(k) > SyLongCap

----------------------------------------------------------------------------
(* The cursor of add_beatnet_effects.py after a placement.                 *)

PlacementStep == Len(new_effect_nodes') = Len(new_effect_nodes) + 1

(* C17: a placement of add_beatnet_effects.py leaves the cursor on the     *)
(* first beat strictly after the end of the placed interval; no beat b     *)
(* with start < b <= end of an emitted effect is under the cursor or ahead *)
(* of it afterwards, and none is the start of another effect.              *)
C17_CursorPastPlacedEnd ==
    /\ [](\A k \in Emitted :
            /\ \A idx \in i..(Len(beats) - 1) : beats[idx + 1] > EmittedEnd(k)
            /\ \A m \in Emitted :
                  ~(EmittedStart(k) < EmittedStart(m) /\ EmittedStart(m) <= EmittedEnd(k)))
    /\ [][PlacementStep =>
            \A idx \in 0..(Len(beats) - 1) :
                idx >= i' <=> beats[idx + 1] > beats[i + 1] + EndBeat.duration]_vars

C17_Witness ==
    /\ run = 1
    /\ Len(new_effect_nodes) = 1
    /\ iters = 1
    /\ i >= 2
    /\ i < Len(beats)
    /\ beats[i] = EmittedEnd(1)
    /\ beats[i - 1] > EmittedStart(1)

----------------------------------------------------------------------------
(* Colours and kinds planned by add_waveform_effects.py.                   *)

Planned == 1..Len(effects_to_add)

(* C18: in add_waveform_effects.py two consecutive placements never get    *)
(* the same palette colour.                                                *)
C18_ConsecutiveColoursDiffer ==
    \A k \in Planned :
        k + 1 \in Planned => effects_to_add[k].color # effects_to_add[k + 1].color

(* C19: in add_waveform_effects.py the kind of an effect is one its start  *)
(* beat's tier allows: Spiral, Butterfly, Twinkle or Wipe on a downbeat,   *)
(* Pulse, Twinkle, Wipe or Butterfly on a strong beat that is no downbeat, *)
(* Pulse alone on a normal beat.                                           *)
C19_KindEligibleForTier ==
    \A k \in Planned :
        LET start == effects_to_add[k].start_time
            kind == effects_to_add[k].effect_type
        IN IF start \in downbeats
           THEN kind \in {"spiral", "butterfly", "twinkle", "wipe"}
           ELSE IF start \in strong_beats
           THEN kind \in {"pulse", "twinkle", "wipe", "butterfly"}
           ELSE kind = "pulse"

C19_Witness ==
    /\ pc = "planned"
    /\ \E k \in Planned :
          /\ effects_to_add[k].start_time \in strong_beats \ downbeats
          /\ effects_to_add[k].effect_type = "twinkle"
    /\ \E k \in Planned :
          /\ effects_to_add[k].start_time \in downbeats
          /\ effects_to_add[k].effect_type = "butterfly"

----------------------------------------------------------------------------
(* add_continuous_effects.py: the fill loop.  Its times are counted in     *)
(* hundredths of a second, DURATION = 302.14 s being no whole number of    *)
(* tenths.  The loop only appends to its output lists: the model keeps the *)
(* node appended last (last_node) and their length (effect_count).         *)

DURATION == 30214       \* 302.14 s
CtPerMinute == 6000     \* 60 s
CtExitMargin == 50      \* 0.5 s, the loop runs while current_time < DURATION - 0.5
CtBreakBelow == 30      \* 0.3 s, a clipped duration below it ends the loop
CtPulseCap == 200       \* 2.0 s
CtOtherCap == 1000      \* 10.0 s

(* lines 301-318: effect_pattern, durations in hundredths of a second *)
effect_pattern ==
    << <<"pulse", 150>>, <<"twinkle", 500>>, <<"pulse", 120>>, <<"butterfly", 600>>,
       <<"pulse", 200>>, <<"spiral", 800>>, <<"pulse", 100>>, <<"wipe", 500>>,
       <<"pulse", 180>>, <<"twinkle", 600>>, <<"pulse", 150>>, <<"butterfly", 700>>,
       <<"pulse", 130>>, <<"wipe", 400>>, <<"pulse", 200>>, <<"spiral", 1000>> >>

(* Values of 100 * random.random() * 0.4 the model draws: the factor       *)
(* 0.8 + random.random() * 0.4 is then 0.8 or 1.1.                         *)
CtVariations == {0, 30}

ct_seconds_to_duration(seconds) ==
    IF seconds < CtPerMinute
    THEN [hasM |-> FALSE, mins |-> 0, secs |-> seconds]
    ELSE [hasM |-> TRUE, mins |-> seconds \div CtPerMinute, secs |-> seconds % CtPerMinute]

(* The time an ISO 8601 duration written by the script stands for.         *)
CtTime(dur_str) == (IF dur_str.hasM THEN dur_str.mins ELSE 0) * CtPerMinute + dur_str.secs

(* The duration left as it was varied, no cap applied.                     *)
ct_uncapped(effect_name, base_duration, variation) ==
    (base_duration * (80 + variation)) \div 100

(* lines 324-331: the varied duration, capped by kind *)
ct_capped(effect_name, base_duration, variation) ==
    LET varied == (base_duration * (80 + variation)) \div 100
    IN IF effect_name = "pulse" THEN Min(varied, CtPulseCap) ELSE Min(varied, CtOtherCap)

(* lines 334-335: the duration clipped to the end of the song *)
ct_duration(capped, now) ==
    IF now + capped > DURATION THEN DURATION - now ELSE capped

(* The loop condition with room kept for the longest effect.               *)
loop_continues_with_room(now) == now < DURATION - CtOtherCap

(* line 321: the loop condition *)
loop_continues(now) == now < DURATION - CtExitMargin

InitContinuous ==
    /\ beats = <<>>
    /\ downbeats = {}
    /\ strong_beats = {}
    /\ existing0 = <<>>
    /\ existing_effects = <<>>
    /\ InitBeatnetIdle
    /\ InitWaveformIdle
    /\ pc = "loop"
    /\ iters = 0
    /\ InitRunOne
    /\ InitFn

ctIdleVars == <<inputVars, existing_effects, i, new_effect_data, new_effect_nodes,
                effects_added, iters, run, rerun, prev_out, beat_idx, effects_to_add,
                fn, arg_t, arg_eps, arg_cap, arg_occ, result, endArgVars, docVars>>

(* lines 321-366: one iteration of the fill loop.  Every name of           *)
(* effect_pattern is in effect_types, so type_id is never None.            *)
FillStep ==
    /\ pc = "loop"
    /\ loop_continues(current_time)
    /\ \E variation \in CtVariations, effect_id \in EffectIds :
         LET effect_name == effect_pattern[(pattern_idx % Len(effect_pattern)) + 1][1]
             base_duration == effect_pattern[(pattern_idx % Len(effect_pattern)) + 1][2]
             capped == ct_capped(effect_name, base_duration, variation)
             duration == ct_duration(capped, current_time)
         IN IF current_time + capped > DURATION /\ duration < CtBreakBelow
            THEN /\ pc' = "done"
                 /\ UNCHANGED <<contVars, color_idx>>
            ELSE /\ last_node' = make_effect_node(effect_id,
                                                  ct_seconds_to_duration(current_time),
                                                  ct_seconds_to_duration(duration),
                                                  effect_name)
                 /\ color_idx' = color_idx + 1
                 /\ effect_count' = effect_count + 1
                 /\ current_time' = current_time + duration
                 /\ pattern_idx' = pattern_idx + 1
                 /\ pc' = pc
    /\ UNCHANGED ctIdleVars

(* line 321: the loop condition fails *)
FillExit ==
    /\ pc = "loop"
    /\ ~loop_continues(current_time)
    /\ pc' = "done"
    /\ UNCHANGED <<contVars, color_idx, ctIdleVars>>

NextContinuous == FillStep \/ FillExit

SpecContinuous == InitContinuous /\ [][NextContinuous]_vars

LastStart == CtTime(last_node.start)

LastEnd == CtTime(last_node.start) + CtTime(last_node.span)

(* C20: add_continuous_effects.py leaves no stretch of [0, DURATION]       *)
(* longer than 1 s without an effect, whatever the random variation of the *)
(* durations: the first effect starts at 0, every further effect starts    *)
(* where the one before it ends, no effect runs past DURATION, and when    *)
(* the loop has ended less than 1 s after the last effect is uncovered.    *)
C20_NoGapAboveOneSecond ==
    /\ [](effect_count > 0 => LastEnd = current_time /\ LastEnd <= DURATION)
    /\ [](pc = "done" => effect_count > 0 /\ DURATION - current_time < 100)
    /\ [][effect_count' = effect_count + 1 =>
             LastStart' = IF effect_count = 0 THEN 0 ELSE LastEnd]_vars

C20_Witness ==
    /\ pc = "done"
    /\ effect_count > 1
    /\ current_time < DURATION
    /\ LastEnd = current_time
    /\ last_node.start.hasM

----------------------------------------------------------------------------
(* The occupied list of add_beatnet_effects.py during a pass.              *)

InsertedAt(p, x, seq) == SubSeq(seq, 1, p - 1) \o <<x>> \o SubSeq(seq, p, Len(seq))

(* C21: during a pass of add_beatnet_effects.py every iteration leaves     *)
(* existing_effects as it is or adds to it the one (start, end) pair just  *)
(* placed, every interval already there staying as it was, and the list is *)
(* sorted by start after every insertion.                                  *)
C21_OccupiedOnlyGrows ==
    /\ [](SortedByStart(existing_effects))
    /\ [][\/ existing_effects' = existing_effects
          \/ /\ PlacementStep
             /\ \E p \in 1..(Len(existing_effects) + 1) :
                   existing_effects' =
                      InsertedAt(p, <<beat_time, EndBeat.end_time>>, existing_effects)]_vars

C21_Witness ==
    /\ run = 1
    /\ existing0 # <<>>
    /\ Len(existing_effects) = 3
    /\ existing_effects[2] = existing0[1]

----------------------------------------------------------------------------
(* Whether add_waveform_effects.py lets a placement see the earlier ones.  *)

(* C22: in add_waveform_effects.py every planned effect is fed back into   *)
(* the occupied list: it is in existing_effects once planned, no planned   *)
(* effect starts within 0.3 s after the end of an earlier planned effect,  *)
(* and no planned effect ends inside an earlier one.                       *)
C22_PlannedFedBack ==
    \A k \in Planned :
        /\ \E m \in 1..Len(existing_effects) :
              existing_effects[m] = <<effects_to_add[k].start_time, effects_to_add[k].end_time>>
        /\ \A n \in Planned :
              k < n =>
                 /\ effects_to_add[n].start_time > effects_to_add[k].end_time + WfGapThreshold
                 /\ ~(/\ effects_to_add[k].start_time <= effects_to_add[n].end_time
                      /\ effects_to_add[n].end_time <= effects_to_add[k].end_time)

----------------------------------------------------------------------------
(* add_waveform_effects.py: XML generation and insertion into the document *)
(* (lines 414-456).  The document is known by the two closing tags the     *)
(* script looks for and by the blocks it ends up holding.                  *)

(* Times the beats may fall on in the runs that write the document.        *)
InsBeatTimes == {Origin + d : d \in {0, 7, 20, 80}}

(* lines 430-435: the sub-parameter drawn for a kind *)
wf_variants(effect_type) ==
    CASE effect_type = "butterfly" -> {<<t>> : t \in 1..5}
      [] effect_type = "wipe" -> {<<d>> : d \in 0..3}
      [] OTHER -> {<<>>}

WfAllVariants == UNION {wf_variants(k) : k \in Kinds}

(* lines 334-344 *)
wf_make_effect_node(effect_id, start_time, duration) ==
    [id |-> effect_id, start |-> start_time, span |-> duration]

(* lines 414-439: the data and node blocks the generation loop can build,  *)
(* one pair of lists per outcome of uuid4 and randint.                     *)
WfGenerated ==
    {[data |-> [k \in 1..Len(effects_to_add) |->
                  make_data(ids[k], effects_to_add[k].effect_type,
                            effects_to_add[k].color, vs[k])],
      nodes |-> [k \in 1..Len(effects_to_add) |->
                  wf_make_effect_node(ids[k],
                                      seconds_to_duration(effects_to_add[k].start_time),
                                      seconds_to_duration(effects_to_add[k].duration))]] :
        ids \in [1..Len(effects_to_add) -> EffectIds],
        vs \in {v \in [1..Len(effects_to_add) -> WfAllVariants] :
                  \A k \in 1..Len(effects_to_add) :
                      v[k] \in wf_variants(effects_to_add[k].effect_type)}}

InitInsert ==
    /\ InitInputs(InsBeatTimes, MaxBeats, MaxDownbeats, MaxStrong, MaxExisting)
    /\ InitBeatnetIdle
    /\ InitWaveformIdle
    /\ pc = "loop"
    /\ iters = 0
    /\ InitRunOne
    /\ InitFnIdle
    /\ data_marker \in BOOLEAN
    /\ nodes_marker \in BOOLEAN
    /\ doc_data = <<>>
    /\ doc_nodes = <<>>
    /\ script = "none"

(* lines 414-456: generate the blocks, insert each list where its closing  *)
(* tag is found, write the file                                            *)
WfWrite ==
    /\ pc = "planned"
    /\ \E g \in WfGenerated :
         /\ doc_data' = IF data_marker THEN g.data ELSE <<>>
         /\ doc_nodes' = IF nodes_marker THEN g.nodes ELSE <<>>
    /\ pc' = "written"
    /\ UNCHANGED <<inputVars, existing_effects, beat_idx, effects_to_add, iters,
                   wfQuietVars, run, rerun, prev_out, data_marker, nodes_marker, script>>

NextInsert == NextWaveform \/ WfWrite

SpecInsert == InitInsert /\ [][NextInsert]_vars

(* C23: add_waveform_effects.py leaves no partial output: the document it  *)
(* writes holds the data blocks and the matching node blocks of all the    *)
(* planned effects, or neither; never the data without the nodes or the    *)
(* nodes without the data, also when one of the two closing tags is        *)
(* missing.                                                                *)
C23_NoPartialOutput ==
    pc = "written" =>
        \/ /\ Len(doc_data) = Len(effects_to_add)
           /\ Len(doc_nodes) = Len(effects_to_add)
           /\ \A k \in 1..Len(effects_to_add) : doc_data[k].id = doc_nodes[k].id
        \/ doc_data = <<>> /\ doc_nodes = <<>>

----------------------------------------------------------------------------
(* The two beat-quantized schedulers, each run twice on the same beats,    *)
(* salience sets and document.  script names the one that runs; the first  *)
(* run leaves in prev_out its intervals and the kind drawn for its first   *)
(* effect.                                                                 *)

QBeatTimes == {Origin + d : d \in {0, 7, 20, 30}}

QScripts == {"beatnet", "waveform"}

(* The intervals emitted so far, as written: (start, end) in order.        *)
QIntervals ==
    IF script = "beatnet"
    THEN [k \in Emitted |-> <<EmittedStart(k), EmittedEnd(k)>>]
    ELSE [k \in Planned |-> <<WfEmittedStart(k), WfEmittedStart(k) + WfEmittedDuration(k)>>]

(* The kind random.choice gave the first effect.                           *)
QFirstDrawn ==
    IF QIntervals = <<>> THEN "nothing"
    ELSE IF script = "beatnet" THEN new_effect_data[1].kind
    ELSE effects_to_add[1].effect_type

QFinished == (script = "beatnet" /\ pc = "done") \/ (script = "waveform" /\ pc = "planned")

InitQuantized ==
    /\ InitInputs(QBeatTimes, MaxBeats, MaxDownbeats, MaxStrong, MaxExisting)
    /\ InitScheduler
    /\ InitWaveformIdle
    /\ InitRunOne
    /\ InitFnIdle
    /\ data_marker = TRUE
    /\ nodes_marker = TRUE
    /\ doc_data = <<>>
    /\ doc_nodes = <<>>
    /\ script \in QScripts
    /\ script = "beatnet" => strong_beats = {}

(* add_beatnet_effects.py started again with the inputs of the first run,  *)
(* the occupied list left by the first run kept.                           *)
BnRunAgainKeepsOccupied ==
    /\ script = "beatnet"
    /\ pc = "done"
    /\ run = 1
    /\ run' = 2
    /\ rerun' = "same"
    /\ prev_out' = [intervals |-> QIntervals, drawn |-> QFirstDrawn]
    /\ RestartScheduler
    /\ UNCHANGED <<inputVars, existing_effects, idleVars>>

(* add_beatnet_effects.py started again with the inputs of the first run   *)
BnRunAgain ==
    /\ script = "beatnet"
    /\ pc = "done"
    /\ run = 1
    /\ run' = 2
    /\ rerun' = "same"
    /\ prev_out' = [intervals |-> QIntervals, drawn |-> QFirstDrawn]
    /\ existing_effects' = existing0
    /\ RestartScheduler
    /\ UNCHANGED <<inputVars, idleVars>>

(* add_waveform_effects.py started again with the inputs of the first run  *)
WfRunAgain ==
    /\ script = "waveform"
    /\ pc = "planned"
    /\ run = 1
    /\ run' = 2
    /\ rerun' = "same"
    /\ prev_out' = [intervals |-> QIntervals, drawn |-> QFirstDrawn]
    /\ beat_idx' = 0
    /\ effects_to_add' = <<>>
    /\ pc' = "loop"
    /\ iters' = 0
    /\ UNCHANGED <<inputVars, existing_effects, wfQuietVars, docVars>>

NextQuantized ==
    \/ script = "beatnet" /\ Next
    \/ script = "waveform" /\ NextWaveform
    \/ BnRunAgain
    \/ WfRunAgain

SpecQuantized == InitQuantized /\ [][NextQuantized]_vars

(* C24: the intervals add_beatnet_effects.py and add_waveform_effects.py   *)
(* emit do not depend on the random draws of kind, colour and              *)
(* sub-parameter: a second run on the same beats, salience sets and        *)
(* existing intervals emits the same (start, end) pairs in the same order, *)
(* whatever either run drew.                                               *)
C24_IntervalsSameInBothRuns ==
    (run = 2 /\ QFinished) => QIntervals = prev_out.intervals

C24_Witness ==
    /\ run = 2
    /\ QFinished
    /\ script = "waveform"
    /\ Len(QIntervals) = 2
    /\ QIntervals = prev_out.intervals
    /\ QFirstDrawn # prev_out.drawn

(* C27: in add_beatnet_effects.py and add_waveform_effects.py the end beat *)
(* of an emitted effect is used up: no beat time is the end of one emitted *)
(* effect and the start of another.                                        *)
C27_EndBeatConsumed ==
    \A k \in 1..Len(QIntervals) :
        \A m \in 1..Len(QIntervals) : QIntervals[k][2] # QIntervals[m][1]

C27_Witness ==
    /\ script = "waveform"
    /\ Len(QIntervals) = 2
    /\ \E n \in 1..(Len(beats) - 1) :
          beats[n] = QIntervals[1][2] /\ beats[n + 1] = QIntervals[2][1]

----------------------------------------------------------------------------
(* Progress of the free-running loop of add_beat_synced_effects.py.        *)

(* The loop of lines 328-394 is a sequential program: it keeps stepping.   *)
SpecSyncedFair == SpecSynced /\ WF_vars(NextSynced)

(* C25: the gap beats are filtered with a margin of 0.3 s, above the 0.1 s *)
(* buffer of find_gap_duration, so every emitted duration is at least      *)
(* 0.2 s, every iteration moves the cursor forward by at least one beat,   *)
(* and the pass terminates.                                                *)
C25_LoopMakesProgress ==
    /\ [](\A k \in Emitted :
            EmittedEnd(k) - EmittedStart(k) >= SyGapThreshold - GapBuffer)
    /\ [][PlacementStep => i' >= i + 1]_vars
    /\ [](i <= Len(beats_in_gaps) /\ iters <= i)
    /\ <>(pc = "done")

C25_Witness ==
    /\ pc = "done"
    /\ iters = 2
    /\ i = Len(beats_in_gaps)
    /\ Len(beats_in_gaps) < Len(beats)
    /\ EmittedEnd(1) - EmittedStart(1) = SyGapThreshold

(* C26: in add_beat_synced_effects.py every emitted effect [t, t + d]      *)
(* overlaps no pre-existing interval and ends at least 0.1 s before the    *)
(* start of every pre-existing interval that starts after t; emitted       *)
(* effects may abut but never overlap: the next one starts at or after the *)
(* end of the one before.                                                  *)
C26_ClearOfExistingAndEachOther ==
    /\ \A k \in Emitted : \A m \in 1..Len(existing0) :
          /\ ~(EmittedStart(k) <= existing0[m][2] /\ existing0[m][1] <= EmittedEnd(k))
          /\ existing0[m][1] > EmittedStart(k) =>
                EmittedEnd(k) <= existing0[m][1] - GapBuffer
    /\ \A k \in Emitted : k > 1 => EmittedStart(k) >= EmittedEnd(k - 1)

C26_Witness ==
    /\ pc = "done"
    /\ Len(new_effect_nodes) = 3
    /\ existing0 # <<>>
    /\ EmittedStart(2) = EmittedEnd(1)
    /\ EmittedEnd(2) = existing0[1][1] - GapBuffer
    /\ EmittedStart(3) > existing0[1][2]

----------------------------------------------------------------------------
(* The output lists and counters of add_beatnet_effects.py.                *)

(* C28: in add_beatnet_effects.py, after every iteration of the loop the   *)
(* data list, the node list, effects_added and color_idx have the same     *)
(* size, the k-th data block and the k-th node carry the same effect id,   *)
(* and an iteration that skips a covered beat or finds no end beat changes *)
(* none of the four.                                                       *)
C28_ListsAndCountersInStep ==
    /\ [](/\ Len(new_effect_data) = Len(new_effect_nodes)
          /\ Len(new_effect_nodes) = effects_added
          /\ effects_added = color_idx
          /\ \A k \in Emitted : new_effect_data[k].id = new_effect_nodes[k].id)
    /\ [][(iters' = iters + 1 /\ i' = i + 1 /\ existing_effects' = existing_effects) =>
            UNCHANGED <<new_effect_data, new_effect_nodes, effects_added, color_idx>>]_vars
    /\ [][iters' = iters + 1 =>
            \/ UNCHANGED <<new_effect_data, new_effect_nodes, effects_added, color_idx>>
            \/ /\ Len(new_effect_data') = Len(new_effect_data) + 1
               /\ effects_added' = effects_added + 1
               /\ color_idx' = color_idx + 1]_vars

C28_Witness ==
    /\ run = 1
    /\ pc = "done"
    /\ iters = 3
    /\ effects_added = 1
    /\ Len(beats) = 4
    /\ ~is_gap(beats[3], existing_effects, GapThreshold)
    /\ is_gap(beats[4], existing_effects, GapThreshold)

----------------------------------------------------------------------------
(* Termination and caps of the fill loop of add_continuous_effects.py.     *)

(* The loop of lines 321-366 is a sequential program: it keeps stepping.   *)
SpecContinuousFair == SpecContinuous /\ WF_vars(NextContinuous)

(* C29: the fill loop of add_continuous_effects.py terminates whatever the *)
(* random variations are; its effects tile the song from 0, each starting  *)
(* at the cursor and moving the cursor to its end, none past DURATION; a   *)
(* Pulse lasts at most 2.0 s and every other kind at most 10.0 s; and the  *)
(* loop is never left through the 'duration < 0.3' break: when it has      *)
(* ended, the loop condition is false.                                     *)
C29_FillTerminatesWithinCaps ==
    /\ [](effect_count > 0 =>
            /\ CtTime(last_node.span) <=
                  (IF last_node.type = "pulse" THEN CtPulseCap ELSE CtOtherCap)
            /\ CtTime(last_node.span) >= CtBreakBelow
            /\ LastEnd <= DURATION
            /\ (effect_count = 1 => LastStart = 0))
    /\ [](pc = "done" => ~loop_continues(current_time))
    /\ [][pc = "loop" /\ loop_continues(current_time) =>
             /\ pc' = "loop"
             /\ effect_count' = effect_count + 1
             /\ current_time' > current_time
             /\ LastStart' = current_time
             /\ LastEnd' = current_time']_vars
    /\ <>(pc = "done")

C29_Witness ==
    /\ pc = "done"
    /\ current_time = DURATION
    /\ last_node.type = "pulse"
    /\ CtTime(last_node.span) < CtPulseCap
    /\ CtTime(last_node.span) > CtExitMargin

====
